---- MODULE Spec2Model ----
(***************************************************************************)
(* Verification model of transcript-pro.                                   *)
(*                                                                         *)
(*   - ArchiveService (services/archiveService): a versioned archive kept  *)
(*     in two localStorage items, the entry list and the per-prefix        *)
(*     counters.                                                           *)
(*   - SubtitleTool (components/tools/SubtitleTool.tsx): the chunked       *)
(*     translation loop runTranslation and the handlers that start it.     *)
(*   - utils: extractJson, parseSRT and generateSRT.                       *)
(*   - App (App.tsx): the view shown and the archive entry handed to a     *)
(*     tool on Resume.                                                     *)
(*                                                                         *)
(* JavaScript runs one handler (or one continuation after an await) to     *)
(* completion before the next one starts, so every action below is one     *)
(* such synchronous stretch of code.                                       *)
(***************************************************************************)
EXTENDS Integers, Sequences, FiniteSets, TLC

VARIABLES
    \* ---- ArchiveService: the two localStorage items ----
    stArchive,      \* raw item under STORAGE_KEY
    stCounters,     \* raw item under COUNTER_KEY
    nextId,         \* crypto.randomUUID(): the next fresh id
    clock,          \* Date.now()
    ops,            \* number of archive operations performed so far
    ret,            \* what the last archive operation returned / did
    lastVer,        \* history: (title,type) -> version returned by the previous save
    removedSince,   \* history: keys that lost an entry since their previous save
    lastSeq,        \* history: type -> sequence number returned by the previous save
    clearedSince,   \* history: types whose counter was reset since their previous save
    pages,          \* pages (tabs) of the application sharing the two items
    \* ---- SubtitleTool: React state and the asynchronous activities ----
    segments,
    translatedSegments,
    isProcessing,
    isTranslating,
    translationProgress,
    error,
    youtubeUrl,
    autoTranslate,
    reads,          \* FileReader loads started and not yet delivered (0 or 1)
    yt,             \* handleYoutubeExtract invocation
    runs,           \* runTranslation invocations
    nRuns,          \* number of runTranslation invocations started
    nCalls,         \* chunk calls of the runs started so far
    faults,         \* responses other than a faithful translation so far
    \* ---- the pure functions of utils: their argument and result ----
    srt,            \* generateSRT / parseSRT
    ej,             \* extractJson
    \* ---- App: React state ----
    currentView,
    activeAsset

archiveVars == <<stArchive, stCounters, nextId, clock, ops, ret,
                 lastVer, removedSince, lastSeq, clearedSince, pages>>
subtitleVars == <<segments, translatedSegments, isProcessing, isTranslating,
                  translationProgress, error, youtubeUrl, autoTranslate,
                  reads, yt, runs, nRuns, nCalls, faults>>
utilVars == <<srt, ej>>
appVars == <<currentView, activeAsset>>
vars == <<archiveVars, subtitleVars, utilVars, appVars>>

(***************************************************************************)
(* Bounds of the model.                                                    *)
(***************************************************************************)
MaxOps == 4         \* archive operations explored from each initial store
MaxChunks == 3      \* longest translated input, in chunks
MaxFaults == 1      \* responses other than a faithful translation explored

\* The runTranslation invocations explored: two, so that one can start while
\* the other is in flight.  Together they make at most MaxCalls chunk calls.
RunIds == {1, 2}
MaxCalls == MaxChunks

Min(a, b) == IF a < b THEN a ELSE b

(***************************************************************************)
(*                            ArchiveService                               *)
(***************************************************************************)
ArchiveLimit == 500

AllTypes == {"Story", "Recap", "Transcript", "Audiobook", "Translation",
             "Voice", "Thumbnail", "Content", "Video"}

TYPE_PREFIX(type) ==
    CASE type = "Story"       -> "ST"
      [] type = "Recap"       -> "VR"
      [] type = "Transcript"  -> "TR"
      [] type = "Audiobook"   -> "AR"
      [] type = "Translation" -> "TL"
      [] type = "Voice"       -> "VO"
      [] type = "Thumbnail"   -> "TN"
      [] type = "Content"     -> "CT"
      [] type = "Video"       -> "VD"
      [] OTHER                -> "XX"

Prefixes == {TYPE_PREFIX(t) : t \in AllTypes}

\* Inputs of saveAsset explored by the model.
SaveTypes == {"Story", "Recap"}
Titles == {"Demo", "Other"}
Contents == {"c"}

\* A localStorage item.  getItem returns null for a key never set; the text
\* stored is the empty string, text that is not JSON, or JSON.  A JSON
\* text is represented by the value it parses to.
NullItem == [kind |-> "null", isArray |-> FALSE, items |-> <<>>]
EmptyItem == [kind |-> "empty", isArray |-> FALSE, items |-> <<>>]
GarbageItem == [kind |-> "garbage", isArray |-> FALSE, items |-> <<>>]
JsonOtherItem == [kind |-> "json", isArray |-> FALSE, items |-> <<>>]

\* JSON.stringify of an entry array / JSON.parse of an item.
JSONstringify(items) == [kind |-> "json", isArray |-> TRUE, items |-> items]
JSONparseRaises(item) == item.kind = "garbage"
JSONparse(item) == [isArray |-> item.isArray, items |-> item.items]

EmptyList == [isArray |-> TRUE, items |-> <<>>]

\* getArchive: try { data = getItem(KEY); return data ? JSON.parse(data) : [] }
\*             catch { return [] }
GetArchive(item) ==
    IF item.kind \in {"null", "empty"} THEN EmptyList      \* data is falsy
    ELSE IF JSONparseRaises(item) THEN EmptyList        \* caught
    ELSE JSONparse(item)

ZeroCounters == [p \in Prefixes |-> 0]
NullCounters == [kind |-> "null", map |-> ZeroCounters]
CountersItem(map) == [kind |-> "json", map |-> map]

\* An item under COUNTER_KEY that JSON.parse rejects.
GarbageCounters == [kind |-> "garbage", map |-> ZeroCounters]

\* getCounters: the stored map, or all zeros when absent or unparsable.
GetCounters(item) ==
    IF item.kind = "json" THEN item.map ELSE ZeroCounters

\* String(n).padStart(3, '0')
PadStart3(s) ==
    IF Len(s) >= 3 THEN s
    ELSE IF Len(s) = 2 THEN "0" \o s
    ELSE IF Len(s) = 1 THEN "00" \o s
    ELSE "000"

FormatFileId(prefix, n) == prefix \o "-" \o PadStart3(ToString(n))

\* generateFileId with the id formatted from the counter as read, before
\* the increment.
GenerateFileId_Stale(type, countersItem) ==
    LET prefix == TYPE_PREFIX(type)
        counters == GetCounters(countersItem)
        bumped == [counters EXCEPT ![prefix] = counters[prefix] + 1]
    IN  [counters |-> CountersItem(bumped),
         fileId |-> FormatFileId(prefix, counters[prefix])]

\* generateFileId: increments and persists the prefix's counter.
GenerateFileId(type, countersItem) ==
    LET prefix == TYPE_PREFIX(type)
        counters == GetCounters(countersItem)
        bumped == [counters EXCEPT ![prefix] = counters[prefix] + 1]
    IN  [counters |-> CountersItem(bumped),
         fileId |-> FormatFileId(prefix, bumped[prefix])]

\* The version counted on the title alone.
VersionFor_TitleOnly(archive, title, type) ==
    Cardinality({i \in DOMAIN archive : archive[i].title = title}) + 1

\* One more than the highest version stored for the title and type.
VersionFor_MaxPlusOne(archive, title, type) ==
    LET vs == {archive[i].version : i \in {j \in DOMAIN archive :
                    archive[j].title = title /\ archive[j].type = type}}
    IN  IF vs = {} THEN 1 ELSE (CHOOSE v \in vs : \A w \in vs : w <= v) + 1

\* archive.filter(a => a.title === title && a.type === type).length + 1
VersionFor(archive, title, type) ==
    Cardinality({i \in DOMAIN archive :
                    archive[i].title = title /\ archive[i].type = type}) + 1

\* The list cut to its last 500 entries: slice(-500).
Retain_KeepLast(entry, archive) ==
    LET all == <<entry>> \o archive
    IN  SubSeq(all, Len(all) - Min(Len(all), ArchiveLimit) + 1, Len(all))

\* The entry appended at the tail: push instead of unshift.
Retain_Append(entry, archive) ==
    LET all == archive \o <<entry>>
    IN  SubSeq(all, 1, Min(Len(all), ArchiveLimit))

\* archive.unshift(entry); archive.slice(0, 500)
Retain(entry, archive) ==
    LET all == <<entry>> \o archive
    IN  SubSeq(all, 1, Min(Len(all), ArchiveLimit))

NoEntry == [id |-> 0, fileId |-> "", type |-> "", title |-> "", content |-> "",
            version |-> 0, timestamp |-> 0]

\* saveAsset as a function of the two stored items, the parameters, the
\* fresh id and the time: the new items and the entry returned.  A stored
\* value that is not an array makes archive.filter raise before anything
\* is written.
SaveAssetResult(archItem, ctrItem, type, title, content, uuid, now) ==
    LET parsed == GetArchive(archItem)
    IN  IF ~parsed.isArray
        THEN [raised |-> TRUE, archive |-> archItem, counters |-> ctrItem,
              entry |-> NoEntry]
        ELSE
        LET archive == parsed.items
            version == VersionFor(archive, title, type)
            gen == GenerateFileId(type, ctrItem)
            entry == [id |-> uuid, fileId |-> gen.fileId, type |-> type,
                      title |-> title, content |-> content,
                      version |-> version, timestamp |-> now]
        IN  [raised |-> FALSE,
             archive |-> JSONstringify(Retain(entry, archive)),
             counters |-> gen.counters,
             entry |-> entry]

\* The entry is dropped together with everything older than it.
DeleteFilter_DropOlder(archive, id) == SelectSeq(archive, LAMBDA a : a.id > id)

\* deleteAsset: getArchive().filter(a => a.id !== id)
DeleteFilter(archive, id) == SelectSeq(archive, LAMBDA a : a.id # id)

\* The store after n saves of ("Demo", "Story") into a fresh store, most
\* recent first: save k got id k, version k and sequence number k.
StoreAfterSaves(n) ==
    [i \in 1..n |->
        [id |-> n + 1 - i, fileId |-> FormatFileId("ST", n + 1 - i),
         type |-> "Story", title |-> "Demo", content |-> "c",
         version |-> n + 1 - i, timestamp |-> n + 1 - i]]

Keys == Titles \X SaveTypes

NoRet == [op |-> "none", raised |-> FALSE, entry |-> NoEntry,
          listed |-> EmptyList, lenBefore |-> 0,
          prevVersion |-> 0, removed |-> FALSE,
          prevSeq |-> 0, cleared |-> FALSE, id |-> 0]

\* The pages (tabs) of the application open on the same origin, and what a
\* page that is inside an ArchiveService method holds in its locals.
PageIds == {1, 2}

IdlePage == [pc |-> "idle", archive |-> <<>>, counters |-> NullCounters,
             entry |-> NoEntry, id |-> 0, saved |-> {}, removes |-> FALSE]

\* The initial stores: fresh, or filled to one below / exactly the limit by
\* earlier saves.
PrefillCounts == {0, ArchiveLimit - 1, ArchiveLimit}

InitArchiveAt(n) ==
    /\ stArchive = IF n = 0 THEN NullItem ELSE JSONstringify(StoreAfterSaves(n))
    /\ stCounters = IF n = 0 THEN NullCounters
                    ELSE CountersItem([ZeroCounters EXCEPT !["ST"] = n])
    /\ nextId = n + 1
    /\ clock = n + 1
    /\ ops = 0
    /\ ret = NoRet
    /\ lastVer = [k \in Keys |-> IF k = <<"Demo", "Story">> THEN n ELSE 0]
    /\ removedSince = {}
    /\ lastSeq = [t \in SaveTypes |-> IF t = "Story" THEN n ELSE 0]
    /\ clearedSince = {}
    /\ pages = [p \in PageIds |-> IdlePage]

\* The entries of the stored list that a reader sees.
Stored == GetArchive(stArchive).items

\* Number of entries of a list stored under key k = <<title, type>>.
CountKey(list, k) ==
    Cardinality({i \in DOMAIN list : list[i].title = k[1] /\ list[i].type = k[2]})

\* (The \E over a one-element set binds a value that is computed once.)
SaveAsset(type, title, content) ==
    \E r \in {SaveAssetResult(stArchive, stCounters, type, title, content,
                              nextId, clock)} :
    \E before \in {Stored} :
    \E after \in {GetArchive(r.archive).items} :
    LET key == <<title, type>>
        \* keys with fewer older entries after the save than before: eviction
        lost == {k \in Keys :
                    CountKey(after, k) - (IF k = key THEN 1 ELSE 0)
                        < CountKey(before, k)}
    IN  /\ ops < MaxOps
        /\ ops' = ops + 1
        /\ clock' = clock + 1
        /\ stArchive' = r.archive
        /\ stCounters' = r.counters
        /\ nextId' = IF r.raised THEN nextId ELSE nextId + 1
        /\ ret' = [NoRet EXCEPT !.op = "save", !.raised = r.raised,
                                !.entry = r.entry,
                                !.lenBefore = Len(before),
                                !.prevVersion = lastVer[key],
                                !.removed = key \in removedSince,
                                !.prevSeq = lastSeq[type],
                                !.cleared = type \in clearedSince]
        /\ IF r.raised
           THEN UNCHANGED <<lastVer, removedSince, lastSeq, clearedSince>>
           ELSE /\ lastVer' = [lastVer EXCEPT ![key] = r.entry.version]
                /\ removedSince' = (removedSince \ {key}) \cup lost
                /\ lastSeq' = [lastSeq EXCEPT ![type] =
                                  GetCounters(r.counters)[TYPE_PREFIX(type)]]
                /\ clearedSince' = clearedSince \ {type}
        /\ UNCHANGED <<pages, subtitleVars, utilVars, appVars>>

\* Ids handed to deleteAsset: the newest, second newest and oldest stored
\* entries, and an id that is not stored.
DeleteIdsOf(list) ==
    {0} \cup {list[i].id : i \in DOMAIN list \cap {1, 2, Len(list)}}

DeleteAsset(id) ==
    \E parsed \in {GetArchive(stArchive)} :
    \E after \in {DeleteFilter(parsed.items, id)} :
    LET before == parsed.items
    IN  /\ ops < MaxOps
        /\ ops' = ops + 1
        /\ clock' = clock + 1
        /\ IF ~parsed.isArray
           THEN /\ UNCHANGED <<stArchive, removedSince>>
                /\ ret' = [NoRet EXCEPT !.op = "delete", !.raised = TRUE,
                                        !.id = id]
           ELSE /\ stArchive' = JSONstringify(after)
                /\ removedSince' = removedSince \cup
                      {k \in Keys : CountKey(after, k) < CountKey(before, k)}
                /\ ret' = [NoRet EXCEPT !.op = "delete", !.id = id,
                                        !.lenBefore = Len(before)]
        /\ UNCHANGED <<stCounters, nextId, lastVer, lastSeq, clearedSince>>
        /\ UNCHANGED <<pages, subtitleVars, utilVars, appVars>>

ClearAll ==
    \E before \in {Stored} :
    /\ ops < MaxOps
    /\ ops' = ops + 1
    /\ clock' = clock + 1
    /\ stArchive' = JSONstringify(<<>>)
    /\ stCounters' = CountersItem(ZeroCounters)
    /\ removedSince' = removedSince \cup {k \in Keys : CountKey(before, k) > 0}
    /\ clearedSince' = SaveTypes
    /\ ret' = [NoRet EXCEPT !.op = "clear", !.lenBefore = Len(before)]
    /\ UNCHANGED <<nextId, lastVer, lastSeq>>
    /\ UNCHANGED <<pages, subtitleVars, utilVars, appVars>>

ListAll ==
    /\ ops < MaxOps
    /\ ops' = ops + 1
    /\ clock' = clock + 1
    /\ ret' = [NoRet EXCEPT !.op = "list", !.listed = GetArchive(stArchive)]
    /\ UNCHANGED <<stArchive, stCounters, nextId, lastVer, removedSince,
                   lastSeq, clearedSince>>
    /\ UNCHANGED <<pages, subtitleVars, utilVars, appVars>>

\* Something other than ArchiveService rewrites or removes the item under
\* STORAGE_KEY: text that is not JSON, JSON that is not an array, the empty
\* string, or no item at all.
CorruptItems == {GarbageItem, JsonOtherItem, EmptyItem, NullItem}

CorruptArchive(item) ==
    /\ ops < MaxOps
    /\ stArchive # item
    /\ ops' = ops + 1
    /\ clock' = clock + 1
    /\ stArchive' = item
    /\ ret' = [NoRet EXCEPT !.op = "corrupt"]
    /\ UNCHANGED <<stCounters, nextId, lastVer, removedSince, lastSeq,
                   clearedSince>>
    /\ UNCHANGED <<pages, subtitleVars, utilVars, appVars>>

\* Something other than ArchiveService removes the item under COUNTER_KEY
\* or rewrites it with text that is not JSON: the next getCounters falls back
\* to all-zero counters.
CorruptCounterItems == {NullCounters, GarbageCounters}

CorruptCounters(item) ==
    /\ ops < MaxOps
    /\ stCounters # item
    /\ ops' = ops + 1
    /\ clock' = clock + 1
    /\ stCounters' = item
    /\ ret' = [NoRet EXCEPT !.op = "corrupt"]
    /\ UNCHANGED <<stArchive, nextId, lastVer, removedSince, lastSeq,
                   clearedSince>>
    /\ UNCHANGED <<pages, subtitleVars, utilVars, appVars>>

(***************************************************************************)
(* ArchiveService called from several pages.  Within a page a method runs  *)
(* to completion; localStorage is shared by the pages of the origin and    *)
(* nothing in the code locks it, so the getItem and setItem calls of       *)
(* methods running in different pages interleave.  Each action below is    *)
(* one method up to and including one storage access.                      *)
(***************************************************************************)
PageStep(p, from, rec) ==
    /\ pages[p].pc = from
    /\ pages' = [pages EXCEPT ![p] = rec]

PageFrame ==
    /\ UNCHANGED <<clock, ret, lastVer, removedSince, lastSeq, clearedSince>>
    /\ UNCHANGED <<subtitleVars, utilVars, appVars>>

\* saveAsset, line 67: getArchive(), then the version and the fresh id.
PageSaveRead(p, type, title, content) ==
    \E archive \in {Stored} :
    /\ ops < MaxOps
    /\ ops' = ops + 1
    /\ nextId' = nextId + 1
    /\ PageStep(p, "idle",
          [pages[p] EXCEPT !.pc = "saveRead", !.archive = archive,
              !.entry = [NoEntry EXCEPT !.id = nextId, !.type = type,
                            !.title = title, !.content = content,
                            !.version = VersionFor(archive, title, type)]])
    /\ UNCHANGED <<stArchive, stCounters>>
    /\ PageFrame

\* generateFileId, line 52: getCounters().
PageSaveCounters(p) ==
    /\ PageStep(p, "saveRead",
          [pages[p] EXCEPT !.pc = "saveCounted", !.counters = stCounters])
    /\ UNCHANGED <<stArchive, stCounters, ops, nextId>>
    /\ PageFrame

\* generateFileId, lines 54-56: saveCounters() of the counters read, bumped.
PageSaveBump(p) ==
    LET gen == GenerateFileId(pages[p].entry.type, pages[p].counters)
    IN  /\ PageStep(p, "saveCounted",
              [pages[p] EXCEPT !.pc = "saveBumped", !.counters = NullCounters,
                  !.entry = [pages[p].entry EXCEPT !.fileId = gen.fileId]])
        /\ stCounters' = gen.counters
        /\ UNCHANGED <<stArchive, ops, nextId>>
        /\ PageFrame

\* saveAsset, lines 86-88: unshift onto the list read, saveArchive(), return.
PageSaveWrite(p) ==
    LET entry == [pages[p].entry EXCEPT !.timestamp = clock]
    IN  /\ PageStep(p, "saveBumped",
              [pages[p] EXCEPT !.pc = "idle", !.archive = <<>>,
                  !.entry = NoEntry,
                  !.saved = @ \cup {[id |-> entry.id, fileId |-> entry.fileId]}])
        /\ stArchive' = JSONstringify(Retain(entry, pages[p].archive))
        /\ UNCHANGED <<stCounters, ops, nextId>>
        /\ PageFrame

\* deleteAsset, line 96: getArchive().filter(...).
PageDeleteRead(p, id) ==
    /\ ops < MaxOps
    /\ ops' = ops + 1
    /\ PageStep(p, "idle",
          [pages[p] EXCEPT !.pc = "deleteRead", !.id = id, !.removes = TRUE,
              !.archive = DeleteFilter(Stored, id)])
    /\ UNCHANGED <<stArchive, stCounters, nextId>>
    /\ PageFrame

\* deleteAsset, line 97: saveArchive() of the filtered list.
PageDeleteWrite(p) ==
    /\ PageStep(p, "deleteRead",
          [pages[p] EXCEPT !.pc = "idle", !.id = 0, !.archive = <<>>])
    /\ stArchive' = JSONstringify(pages[p].archive)
    /\ UNCHANGED <<stCounters, ops, nextId>>
    /\ PageFrame

\* clearAll, line 101: saveArchive([]).
PageClearArchive(p) ==
    /\ ops < MaxOps
    /\ ops' = ops + 1
    /\ PageStep(p, "idle", [pages[p] EXCEPT !.pc = "clearing", !.removes = TRUE])
    /\ stArchive' = JSONstringify(<<>>)
    /\ UNCHANGED <<stCounters, nextId>>
    /\ PageFrame

\* clearAll, line 102: saveCounters() of all zeros.
PageClearCounters(p) ==
    /\ PageStep(p, "clearing", [pages[p] EXCEPT !.pc = "idle"])
    /\ stCounters' = CountersItem(ZeroCounters)
    /\ UNCHANGED <<stArchive, ops, nextId>>
    /\ PageFrame

(***************************************************************************)
(*                             SubtitleTool                                *)
(***************************************************************************)
chunkSize == 12

\* A segment list of n segments; the time codes grow with the index.
Doc(n) ==
    [j \in 1..n |-> [startTime |-> 2 * j, endTime |-> 2 * j + 1, text |-> "source"]]

\* Lengths of the segment lists explored: around the chunk boundaries.
SegLens == {1} \cup {k * chunkSize : k \in 1..(MaxChunks - 1)}
               \cup {k * chunkSize + 1 : k \in 1..(MaxChunks - 1)}

\* Only full chunks: a trailing partial chunk is dropped.
NumChunks_Floor(source) == Len(source) \div chunkSize

\* for (i = 0; i < n; i += chunkSize) chunks.push(slice(i, i + chunkSize))
NumChunks(source) == (Len(source) + chunkSize - 1) \div chunkSize
Chunks(source) ==
    [k \in 1..NumChunks(source) |->
        SubSeq(source, (k - 1) * chunkSize + 1, Min(k * chunkSize, Len(source)))]

\* Math.ceil((done / total) * 100)
ProgressAfter_Ceil(done, total) == (100 * done + total - 1) \div total

\* Math.floor((done / total) * 100)
ProgressAfter_Floor(done, total) == (100 * done) \div total

\* Math.round((done / total) * 100)
ProgressAfter(done, total) == (200 * done + total) \div (2 * total)

\* What the model answers to one generateContent request.
Responses == {"same", "retimed", "short", "long", "unparsable", "error"}

ExtraSegment == [startTime |-> 0, endTime |-> 0, text |-> "extra"]

\* translateSegments: the request fails (handleAIError rethrows), or
\* extractJson finds no JSON (null), or it yields the array the service sent,
\* which the code hands on unchecked.
TranslateSegments(chunk, response) ==
    CASE response = "error" ->
            [raised |-> TRUE, isArray |-> FALSE, list |-> <<>>, msg |-> "QUOTA_EXHAUSTED"]
      [] response = "unparsable" ->
            [raised |-> FALSE, isArray |-> FALSE, list |-> <<>>, msg |-> ""]
      [] response = "same" ->
            [raised |-> FALSE, isArray |-> TRUE, msg |-> "",
             list |-> [j \in DOMAIN chunk |-> [chunk[j] EXCEPT !.text = "translated"]]]
      [] response = "retimed" ->
            [raised |-> FALSE, isArray |-> TRUE, msg |-> "",
             list |-> [j \in DOMAIN chunk |->
                          [startTime |-> chunk[j].startTime + 1,
                           endTime |-> chunk[j].endTime + 1,
                           text |-> "translated"]]]
      [] response = "short" ->
            [raised |-> FALSE, isArray |-> TRUE, msg |-> "",
             list |-> [j \in 1..(Len(chunk) - 1) |->
                          [chunk[j] EXCEPT !.text = "translated"]]]
      [] response = "long" ->
            [raised |-> FALSE, isArray |-> TRUE, msg |-> "",
             list |-> [j \in DOMAIN chunk |-> [chunk[j] EXCEPT !.text = "translated"]]
                      \o <<ExtraSegment>>]

NoError == <<>>

\* The message alone: setError(err.message).
TranslationError_Generic(msg) == <<msg>>

\* setError("Translation failed: " + err.message)
TranslationError(msg) == <<"Translation failed: ", msg>>

\* All remaining calls started at once, as Promise.all over the chunks would.
NewCalls_AllAtOnce(total, done, started) == (started + 1)..total

\* The chunk calls the loop starts when done calls have completed and
\* started have been started: the next one, once the previous has returned.
NewCalls(total, done, started) ==
    IF done = started /\ started < total THEN {started + 1} ELSE {}

IdleRun == [pc |-> "idle", source |-> <<>>, results |-> <<>>, inflight |-> {},
            calls |-> {}, done |-> 0, emitted |-> <<>>, failedAt |-> 0,
            output |-> <<>>, published |-> FALSE, last |-> "none",
            discarded |-> FALSE]

NoYt == [pc |-> "idle", auto |-> FALSE, run |-> 0]

InitSubtitle ==
    /\ segments = <<>>
    /\ translatedSegments = <<>>
    /\ isProcessing = FALSE
    /\ isTranslating = FALSE
    /\ translationProgress = 0
    /\ error = NoError
    /\ youtubeUrl = ""
    /\ autoTranslate = FALSE
    /\ reads = 0
    /\ yt = NoYt
    /\ runs = [r \in RunIds |-> IdleRun]
    /\ nRuns = 0
    /\ nCalls = 0
    /\ faults = 0

\* The record of a run that has returned is kept for one step only.
Ended(rs) ==
    [r \in DOMAIN rs |->
        IF rs[r].pc \in {"succeeded", "failed", "ended"}
        THEN [IdleRun EXCEPT !.pc = "ended"] ELSE rs[r]]

\* No finally block: the flags stay as the run left them.
RunEnds_KeepFlags(r) ==
    /\ UNCHANGED <<isTranslating, translationProgress>>
    /\ IF yt.pc = "translating" /\ yt.run = r
       THEN /\ yt' = NoYt
            /\ isProcessing' = FALSE
       ELSE UNCHANGED <<yt, isProcessing>>

\* The finally block of runTranslation; a handleYoutubeExtract that awaits
\* this run resumes right after it and clears isProcessing.
RunEnds(r) ==
    /\ isTranslating' = FALSE
    /\ translationProgress' = 0
    /\ IF yt.pc = "translating" /\ yt.run = r
       THEN /\ yt' = NoYt
            /\ isProcessing' = FALSE
       ELSE UNCHANGED <<yt, isProcessing>>

\* A catch block that publishes what was translated before the failure.
OnChunkFailure_PublishPartial(msg, results, current) ==
    [error |-> TranslationError(msg), translatedSegments |-> results,
     published |-> TRUE]

\* The catch block: what a failed run leaves in error and translatedSegments.
OnChunkFailure(msg, results, current) ==
    [error |-> TranslationError(msg), translatedSegments |-> current,
     published |-> FALSE]

\* runTranslation up to its first await: the flags, the chunking and the
\* first translateSegments call.
StartRun(r, source) ==
    LET total == NumChunks(source)
        first == NewCalls(total, 0, 0)
    IN  /\ error' = NoError
        /\ nRuns' = r
        /\ nCalls' = nCalls + total
        /\ IF total = 0
           THEN /\ runs' = [Ended(runs) EXCEPT ![r] =
                              [IdleRun EXCEPT !.pc = "succeeded", !.published = TRUE]]
                /\ translatedSegments' = <<>>
                /\ isTranslating' = FALSE
                /\ translationProgress' = 0
           ELSE /\ runs' = [Ended(runs) EXCEPT ![r] =
                              [IdleRun EXCEPT !.pc = "awaiting", !.source = source,
                                 !.inflight = first,
                                 !.calls = {[chunk |-> k, doneBefore |-> 0] : k \in first}]]
                /\ isTranslating' = TRUE
                /\ translationProgress' = 0
                /\ UNCHANGED translatedSegments

\* The model starts a run only while the runs and calls bounds allow it.
CanStart(source) ==
    /\ nRuns < Cardinality(RunIds)
    /\ nCalls + NumChunks(source) <= MaxCalls

\* The Localize button: shown with segments, disabled while isTranslating.
HandleTranslateClick ==
    /\ segments # <<>>
    /\ ~isTranslating
    /\ CanStart(segments)
    /\ StartRun(nRuns + 1, segments)
    /\ UNCHANGED <<segments, isProcessing, youtubeUrl, autoTranslate, reads, yt,
                   faults>>
    /\ UNCHANGED <<archiveVars, utilVars, appVars>>

\* The continuation of runTranslation after the call for chunk k returns.
ChunkReturn(r, k, response) ==
    LET run == runs[r]
        total == NumChunks(run.source)
        res == TranslateSegments(Chunks(run.source)[k], response)
    IN  /\ run.pc = "awaiting"
        /\ k \in run.inflight
        /\ response # "same" => faults < MaxFaults
        /\ faults' = IF response = "same" THEN faults ELSE faults + 1
        /\ IF res.raised \/ ~res.isArray
           THEN \* translateSegments threw, or results.push(...null) did
                LET msg == IF res.raised THEN res.msg ELSE "not iterable"
                    f == OnChunkFailure(msg, run.results, translatedSegments)
                IN  /\ runs' = [Ended(runs) EXCEPT ![r] =
                                  [run EXCEPT !.pc = "failed", !.failedAt = k,
                                              !.last = response,
                                              !.inflight = {},
                                              !.published = f.published,
                                              !.output = IF f.published
                                                         THEN f.translatedSegments
                                                         ELSE <<>>]]
                    /\ error' = f.error
                    /\ translatedSegments' = f.translatedSegments
                    /\ RunEnds(r)
           ELSE LET results == run.results \o res.list
                    done == run.done + 1
                    started == Cardinality(run.calls)
                    next == NewCalls(total, done, started)
                    emitted == Append(run.emitted, ProgressAfter(done, total))
                    inflight == (run.inflight \ {k}) \cup next
                    calls == run.calls \cup
                               {[chunk |-> c, doneBefore |-> done] : c \in next}
                IN  IF done = total
                    THEN /\ runs' = [Ended(runs) EXCEPT ![r] =
                                       [run EXCEPT !.pc = "succeeded",
                                           !.last = response,
                                           !.results = results, !.done = done,
                                           !.emitted = emitted, !.inflight = {},
                                           !.output = results, !.published = TRUE]]
                         /\ translatedSegments' = results
                         /\ RunEnds(r)
                         /\ UNCHANGED error
                    ELSE /\ runs' = [Ended(runs) EXCEPT ![r] =
                                       [run EXCEPT !.results = results, !.done = done,
                                           !.last = response,
                                           !.emitted = emitted, !.inflight = inflight,
                                           !.calls = calls]]
                         /\ translationProgress' = ProgressAfter(done, total)
                         /\ UNCHANGED <<translatedSegments, error, isTranslating,
                                        yt, isProcessing>>
        /\ UNCHANGED <<segments, youtubeUrl, autoTranslate, reads, nRuns, nCalls>>
        /\ UNCHANGED <<archiveVars, utilVars, appVars>>

\* The Discard Asset button of the preview (shown with segments).  It only
\* resets state: a run in flight is not told (history: discarded records that
\* the asset of the run was discarded while it was awaiting a chunk call).
DiscardAsset ==
    /\ segments # <<>>
    /\ segments' = <<>>
    /\ translatedSegments' = <<>>
    /\ youtubeUrl' = ""
    /\ error' = NoError
    /\ runs' = [r \in RunIds |->
                  IF runs[r].pc = "awaiting"
                  THEN [runs[r] EXCEPT !.discarded = TRUE]
                  ELSE Ended(runs)[r]]
    /\ UNCHANGED <<isProcessing, isTranslating, translationProgress,
                   autoTranslate, reads, yt, nRuns, nCalls, faults>>
    /\ UNCHANGED <<archiveVars, utilVars, appVars>>

\* The input panel (shown without segments): picking a file starts a
\* FileReader load.  The model picks the next file once the load is delivered.
HandleFileUpload ==
    /\ segments = <<>>
    /\ reads = 0
    /\ reads' = reads + 1
    /\ runs' = Ended(runs)
    /\ UNCHANGED <<segments, translatedSegments, isProcessing, isTranslating,
                   translationProgress, error, youtubeUrl, autoTranslate,
                   yt, nRuns, nCalls, faults>>
    /\ UNCHANGED <<archiveVars, utilVars, appVars>>

\* reader.onload: parseSRT found n segments.
ReaderOnload(n) ==
    /\ reads > 0
    /\ reads' = reads - 1
    /\ IF n = 0
       THEN /\ error' = <<"Could not parse valid segments from this file.">>
            /\ UNCHANGED <<segments, translatedSegments>>
       ELSE /\ segments' = Doc(n)
            /\ translatedSegments' = <<>>
            /\ error' = NoError
    /\ runs' = Ended(runs)
    /\ UNCHANGED <<isProcessing, isTranslating, translationProgress,
                   youtubeUrl, autoTranslate, yt, nRuns, nCalls, faults>>
    /\ UNCHANGED <<archiveVars, utilVars, appVars>>

\* The URL field and the auto-translate checkbox of the input panel.
SetYoutubeUrl(url) ==
    /\ segments = <<>>
    /\ ~isProcessing
    /\ youtubeUrl # url
    /\ youtubeUrl' = url
    /\ runs' = Ended(runs)
    /\ UNCHANGED <<segments, translatedSegments, isProcessing, isTranslating,
                   translationProgress, error, autoTranslate, reads, yt, nRuns, nCalls, faults>>
    /\ UNCHANGED <<archiveVars, utilVars, appVars>>

SetAutoTranslate ==
    /\ segments = <<>>
    /\ autoTranslate' = ~autoTranslate
    /\ runs' = Ended(runs)
    /\ UNCHANGED <<segments, translatedSegments, isProcessing, isTranslating,
                   translationProgress, error, youtubeUrl, reads, yt, nRuns, nCalls, faults>>
    /\ UNCHANGED <<archiveVars, utilVars, appVars>>

\* handleYoutubeExtract up to its await of transcribeYouTube.
HandleYoutubeExtract ==
    /\ segments = <<>>
    /\ youtubeUrl # ""
    /\ ~isProcessing
    /\ isProcessing' = TRUE
    /\ error' = NoError
    /\ segments' = <<>>
    /\ translatedSegments' = <<>>
    /\ yt' = [pc |-> "transcribing", auto |-> autoTranslate, run |-> 0]
    /\ runs' = Ended(runs)
    /\ UNCHANGED <<isTranslating, translationProgress, youtubeUrl, autoTranslate,
                   reads, nRuns, nCalls, faults>>
    /\ UNCHANGED <<archiveVars, utilVars, appVars>>

\* transcribeYouTube returned n segments (n = 0: none, which throws inside
\* the handler): without auto-translate the handler ends here.
YoutubeReturn(n) ==
    /\ yt.pc = "transcribing"
    /\ n > 0 => ~yt.auto
    /\ IF n = 0
       THEN /\ error' = <<"No speech segments identified in this asset.">>
            /\ UNCHANGED segments
       ELSE /\ segments' = Doc(n)
            /\ UNCHANGED error
    /\ isProcessing' = FALSE
    /\ yt' = NoYt
    /\ runs' = Ended(runs)
    /\ UNCHANGED <<translatedSegments, isTranslating, translationProgress,
                   youtubeUrl, autoTranslate, reads, nRuns, nCalls, faults>>
    /\ UNCHANGED <<archiveVars, utilVars, appVars>>

\* transcribeYouTube returned n > 0 segments with auto-translate on: the
\* handler calls runTranslation(result.segments) and awaits it.
YoutubeReturnTranslate(n) ==
    /\ yt.pc = "transcribing"
    /\ yt.auto
    /\ n > 0
    /\ CanStart(Doc(n))
    /\ segments' = Doc(n)
    /\ yt' = [yt EXCEPT !.pc = "translating", !.run = nRuns + 1]
    /\ StartRun(nRuns + 1, Doc(n))
    /\ UNCHANGED <<isProcessing, youtubeUrl, autoTranslate, reads, faults>>
    /\ UNCHANGED <<archiveVars, utilVars, appVars>>

\* transcribeYouTube threw.
YoutubeFails ==
    /\ yt.pc = "transcribing"
    /\ error' = <<"QUOTA_EXHAUSTED">>
    /\ isProcessing' = FALSE
    /\ yt' = NoYt
    /\ runs' = Ended(runs)
    /\ UNCHANGED <<segments, translatedSegments, isTranslating, translationProgress,
                   youtubeUrl, autoTranslate, reads, nRuns, nCalls, faults>>
    /\ UNCHANGED <<archiveVars, utilVars, appVars>>

(***************************************************************************)
(*        utils: subtitle codec (parseSRT, generateSRT).  A text is a      *)
(*        sequence of characters; positions count from 1 and 0 stands      *)
(*        for JavaScript's -1.                                             *)
(***************************************************************************)
NoSrt == [stage |-> "none", segs |-> <<>>, include |-> FALSE, text |-> <<>>,
          out |-> <<>>]
NoEj == [stage |-> "none", kind |-> "none", isNull |-> FALSE, text |-> <<>>,
         expect |-> <<>>, raised |-> FALSE, outNull |-> FALSE, out |-> <<>>,
         greedy |-> FALSE, candidate |-> <<>>]

MinOf(S) == CHOOSE x \in S : \A y \in S : x <= y
MaxOf(S) == CHOOSE x \in S : \A y \in S : y <= x

\* \s and \d over the characters the model uses.
IsSpace(c) == c \in {" ", "\n"}
Digits == <<"0", "1", "2", "3", "4", "5", "6", "7", "8", "9">>
IsDigit(c) == \E d \in DOMAIN Digits : Digits[d] = c

\* String(n) for n >= 0
RECURSIVE Decimal(_)
Decimal(n) ==
    IF n < 10 THEN <<Digits[n + 1]>>
    ELSE Decimal(n \div 10) \o <<Digits[(n % 10) + 1]>>

\* String.prototype.trim
Trim(s) ==
    LET ink == {i \in DOMAIN s : ~IsSpace(s[i])}
    IN  IF ink = {} THEN <<>> ELSE SubSeq(s, MinOf(ink), MaxOf(ink))

StartsWithAt(s, i, pat) ==
    /\ i >= 1
    /\ i + Len(pat) - 1 <= Len(s)
    /\ \A k \in DOMAIN pat : s[i + k - 1] = pat[k]

\* indexOf, lastIndexOf, includes
IndexOf(s, pat) ==
    LET at == {i \in DOMAIN s : StartsWithAt(s, i, pat)}
    IN  IF at = {} THEN 0 ELSE MinOf(at)

LastIndexOf(s, pat) ==
    LET at == {i \in DOMAIN s : StartsWithAt(s, i, pat)}
    IN  IF at = {} THEN 0 ELSE MaxOf(at)

Includes(s, pat) == IndexOf(s, pat) # 0

\* s.replace(a, b) with one-character strings: the first occurrence only.
ReplaceFirst(s, a, b) ==
    LET i == IndexOf(s, <<a>>)
    IN  IF i = 0 THEN s ELSE [s EXCEPT ![i] = b]

\* s.split(c) for a character c
RECURSIVE Split(_, _)
Split(s, c) ==
    LET i == IndexOf(s, <<c>>)
    IN  IF i = 0 THEN <<s>>
        ELSE <<SubSeq(s, 1, i - 1)>> \o Split(SubSeq(s, i + 1, Len(s)), c)

\* parts.join(sep)
RECURSIVE Join(_, _)
Join(parts, sep) ==
    IF parts = <<>> THEN <<>>
    ELSE IF Len(parts) = 1 THEN parts[1]
    ELSE parts[1] \o sep \o Join(Tail(parts), sep)

\* The end of the match of /\n\s*\n/ that starts at i: the last newline
\* reachable from i through white space (0: no match at i).
BlankRunEnd(s, i) ==
    LET ends == {j \in (i + 1)..Len(s) :
                    s[j] = "\n" /\ \A k \in (i + 1)..(j - 1) : IsSpace(s[k])}
    IN  IF i \in DOMAIN s /\ s[i] = "\n" /\ ends # {} THEN MaxOf(ends) ELSE 0

\* s.split(/\n\s*\n/)
RECURSIVE SplitBlankLines(_)
SplitBlankLines(s) ==
    LET starts == {i \in DOMAIN s : BlankRunEnd(s, i) # 0}
    IN  IF starts = {} THEN <<s>>
        ELSE LET i == MinOf(starts)
             IN  <<SubSeq(s, 1, i - 1)>>
                 \o SplitBlankLines(SubSeq(s, BlankRunEnd(s, i) + 1, Len(s)))

\* /(\d{2}:\d{2}:\d{2}[,. ]\d{3}) --> (\d{2}:\d{2}:\d{2}[,. ]\d{3})/ as a
\* sequence of character classes.
StampPattern == <<"\\d", "\\d", ":", "\\d", "\\d", ":", "\\d", "\\d", "[,. ]",
                  "\\d", "\\d", "\\d">>
Arrow == <<"-", "-", ">">>
TimeLinePattern == StampPattern \o <<" ">> \o Arrow \o <<" ">> \o StampPattern

ClassMatches(class, c) ==
    CASE class = "\\d"    -> IsDigit(c)
      [] class = "[,. ]"  -> c \in {",", ".", " "}
      [] OTHER            -> c = class

MatchesAt(s, i, pattern) ==
    /\ i + Len(pattern) - 1 <= Len(s)
    /\ \A k \in DOMAIN pattern : ClassMatches(pattern[k], s[i + k - 1])

\* line.match(/.../): the leftmost match and its two groups.
TimeMatch(line) ==
    LET at == {i \in DOMAIN line : MatchesAt(line, i, TimeLinePattern)}
        n == Len(StampPattern)
    IN  IF at = {} THEN [found |-> FALSE, start |-> <<>>, end |-> <<>>]
        ELSE LET i == MinOf(at)
             IN  [found |-> TRUE,
                  start |-> SubSeq(line, i, i + n - 1),
                  end |-> SubSeq(line, i + n + 5, i + 2 * n + 4)]

NoMatch == [found |-> FALSE, speaker |-> <<>>, text |-> <<>>]

\* rawText.match(/^\[([^\]]+)\]:\s*(.*)$/)
BracketSpeakerMatch(rawText) ==
    LET k == IndexOf(rawText, <<"]">>)
    IN  IF /\ rawText # <<>> /\ rawText[1] = "["
           /\ k >= 3
           /\ k + 1 <= Len(rawText) /\ rawText[k + 1] = ":"
        THEN [found |-> TRUE, speaker |-> SubSeq(rawText, 2, k - 1),
              text |-> SubSeq(rawText, k + 2, Len(rawText))]
        ELSE NoMatch

\* rawText.match(/^([^:]+):\s*(.*)$/)
BareSpeakerMatch(rawText) ==
    LET k == IndexOf(rawText, <<":">>)
    IN  IF k >= 2
        THEN [found |-> TRUE, speaker |-> SubSeq(rawText, 1, k - 1),
              text |-> SubSeq(rawText, k + 1, Len(rawText))]
        ELSE NoMatch

\* A TranscriptionSegment; hasSpeaker tells whether the speaker property is
\* there.
Segment(startTime, endTime, text) ==
    [startTime |-> startTime, endTime |-> endTime, text |-> text,
     hasSpeaker |-> FALSE, speaker |-> <<>>]

SpokenSegment(startTime, endTime, speaker, text) ==
    [startTime |-> startTime, endTime |-> endTime, text |-> text,
     hasSpeaker |-> TRUE, speaker |-> speaker]

\* segments.push(...)
PushSegment(segment) == <<segment>>

\* The body of the loop of parseSRT: the segments one block adds.
ParseBlock(block) ==
    LET lines == [i \in DOMAIN Split(block, "\n") |-> Trim(Split(block, "\n")[i])]
        timeLines == {i \in DOMAIN lines : Includes(lines[i], Arrow)}
    IN  IF Len(lines) < 3 \/ timeLines = {} THEN <<>>
        ELSE
        LET timeLineIndex == MinOf(timeLines)
            timeMatch == TimeMatch(lines[timeLineIndex])
            rawText == Trim(Join(SubSeq(lines, timeLineIndex + 1, Len(lines)),
                                 <<" ">>))
            bracket == BracketSpeakerMatch(rawText)
            speakerMatch == IF bracket.found THEN bracket
                            ELSE BareSpeakerMatch(rawText)
            startTime == ReplaceFirst(timeMatch.start, ",", ".")
            endTime == ReplaceFirst(timeMatch.end, ",", ".")
        IN  IF ~timeMatch.found THEN <<>>
            ELSE IF speakerMatch.found
            THEN PushSegment(SpokenSegment(startTime, endTime,
                                           Trim(speakerMatch.speaker),
                                           Trim(speakerMatch.text)))
            ELSE PushSegment(Segment(startTime, endTime, rawText))

RECURSIVE ParseBlocks(_)
ParseBlocks(blocks) ==
    IF blocks = <<>> THEN <<>>
    ELSE ParseBlock(Head(blocks)) \o ParseBlocks(Tail(blocks))

\* A prefix for every segment with a speaker, whatever includeSpeakers is.
SpeakerPrefix_Always(segment, includeSpeakers) ==
    IF segment.hasSpeaker /\ segment.speaker # <<>>
    THEN <<"[">> \o segment.speaker \o <<"]", ":", " ">>
    ELSE <<>>

\* textPrefix: '[' + seg.speaker + ']: ' if includeSpeakers && seg.speaker
SpeakerPrefix(segment, includeSpeakers) ==
    IF includeSpeakers /\ segment.hasSpeaker /\ segment.speaker # <<>>
    THEN <<"[">> \o segment.speaker \o <<"]", ":", " ">>
    ELSE <<>>

parseSRT(data) == ParseBlocks(SplitBlankLines(Trim(data)))

generateSRT(segs, includeSpeakers) ==
    Join([i \in DOMAIN segs |->
             Decimal(i) \o <<"\n">>
             \o ReplaceFirst(segs[i].startTime, ".", ",")
             \o <<" ">> \o Arrow \o <<" ">>
             \o ReplaceFirst(segs[i].endTime, ".", ",") \o <<"\n">>
             \o SpeakerPrefix(segs[i], includeSpeakers)
             \o segs[i].text \o <<"\n">>],
         <<"\n">>)

\* The segments handed to generateSRT: canonical time codes, a text that is
\* not empty, with or without a speaker.
Stamp1 == <<"0", "0", ":", "0", "0", ":", "0", "1", ".", "0", "0", "0">>
Stamp2 == <<"0", "0", ":", "0", "0", ":", "0", "3", ".", "5", "0", "0">>
Stamp3 == <<"0", "0", ":", "0", "1", ":", "0", "3", ".", "0", "0", "0">>
Stamp4 == <<"0", "0", ":", "0", "1", ":", "0", "4", ".", "2", "5", "0">>
WireStamp1 == <<"0", "0", ":", "0", "0", ":", "0", "1", ",", "0", "0", "0">>
WireStamp2 == <<"0", "0", ":", "0", "0", ":", "0", "3", ",", "5", "0", "0">>

SegmentTexts == {<<"H", "e", "l", "l", "o", " ", "t", "h", "e", "r", "e">>,
                 <<"H", "i">>,
                 <<"N", "o", "t", "e", ":", " ", "h", "i">>}
SpeakerNames == {<<"A", "l", "i", "c", "e">>}

SrtSegments ==
    {Segment(t[1], t[2], text) :
        t \in {<<Stamp1, Stamp2>>, <<Stamp3, Stamp4>>}, text \in SegmentTexts}
    \cup {SpokenSegment(t[1], t[2], speaker, text) :
            t \in {<<Stamp1, Stamp2>>, <<Stamp3, Stamp4>>},
            speaker \in SpeakerNames, text \in SegmentTexts}

MaxSegs == 2        \* longest segment list encoded

SegmentLists == UNION {[1..n -> SrtSegments] : n \in 0..MaxSegs}

\* The blocks of the SRT files handed to parseSRT directly: a plain block, a
\* block with a speaker, blocks whose payload is empty or only a speaker
\* label, blocks with the other separators in their time line, a block of
\* two lines, and a block whose time line is malformed.
TimeLine == WireStamp1 \o <<" ">> \o Arrow \o <<" ">> \o WireStamp2

\* The same time line with a space, and with a period, before the milliseconds.
SpaceTimeLine ==
    <<"0", "0", ":", "0", "0", ":", "0", "1", " ", "0", "0", "0">>
    \o <<" ">> \o Arrow \o <<" ">>
    \o <<"0", "0", ":", "0", "0", ":", "0", "3", " ", "5", "0", "0">>
PeriodTimeLine == Stamp1 \o <<" ">> \o Arrow \o <<" ">> \o Stamp2

SrtBlocks ==
    {<<"1", "\n">> \o TimeLine \o <<"\n">> \o <<"H", "e", "l", "l", "o", " ", "t", "h", "e", "r", "e">>,
     <<"1", "\n">> \o TimeLine \o <<"\n">> \o <<"[", "A", "l", "i", "c", "e", "]", ":", " ", "H", "e", "l", "l", "o", " ", "t", "h", "e", "r", "e">>,
     <<"1", "\n">> \o TimeLine \o <<"\n">> \o <<"[", "A", "l", "i", "c", "e", "]", ":">>,
     <<"1", "\n">> \o TimeLine \o <<"\n">> \o <<"A", "l", "i", "c", "e", ":">>,
     <<"1", "\n">> \o SpaceTimeLine \o <<"\n">> \o <<"H", "e", "l", "l", "o", " ", "t", "h", "e", "r", "e">>,
     <<"1", "\n">> \o PeriodTimeLine \o <<"\n">> \o <<"[", "A", "l", "i", "c", "e", "]", ":", " ", "H", "e", "l", "l", "o", " ", "t", "h", "e", "r", "e">>,
     <<"x", "\n", "1", "\n">> \o TimeLine,
     <<"1", "\n">> \o TimeLine,
     <<"1", "\n">> \o <<"0", ":", "0", "0", ":", "0", "1", " ", "-", "-", ">", " ", "0", ":", "0", "0", ":", "0", "3">> \o <<"\n">> \o <<"H", "e", "l", "l", "o", " ", "t", "h", "e", "r", "e">>}

BlockSeparators == {<<"\n", "\n">>, <<"\n", " ", "\n", "\n">>}

MaxBlocks == 2      \* most blocks in a file handed to parseSRT

SrtFiles ==
    UNION {{Join(blocks, sep) : blocks \in [1..n -> SrtBlocks],
                                 sep \in BlockSeparators} : n \in 1..MaxBlocks}

\* The calls: generateSRT on a segment list, parseSRT on its result or on a
\* file.
InitSrt ==
    \/ \E segs \in SegmentLists : \E include \in BOOLEAN :
          srt = [NoSrt EXCEPT !.stage = "segments", !.segs = segs,
                              !.include = include]
    \/ \E data \in SrtFiles :
          srt = [NoSrt EXCEPT !.stage = "file", !.text = data]

CallGenerateSRT ==
    /\ srt.stage = "segments"
    /\ srt' = [srt EXCEPT !.stage = "encoded",
                          !.text = generateSRT(srt.segs, srt.include)]
    /\ UNCHANGED <<archiveVars, subtitleVars, ej, appVars>>

CallParseSRT ==
    /\ srt.stage \in {"encoded", "file"}
    /\ srt' = [srt EXCEPT !.stage = IF srt.stage = "file" THEN "parsed"
                                    ELSE "decoded",
                          !.out = parseSRT(srt.text)]
    /\ UNCHANGED <<archiveVars, subtitleVars, ej, appVars>>

(***************************************************************************)
(*        utils: extractJson.  A JSON value is represented by its          *)
(*        canonical text: the text without the white space between its     *)
(*        tokens.                                                          *)
(***************************************************************************)
ParseFails == [ok |-> FALSE, pos |-> 0, canon |-> <<>>]

\* The first position from i on that holds no white space.
SkipSpace(s, i) ==
    LET ink == {j \in i..Len(s) : ~IsSpace(s[j])}
    IN  IF ink = {} THEN Len(s) + 1 ELSE MinOf(ink)

CharAt(s, i) == IF i \in DOMAIN s THEN s[i] ELSE "EOF"

Escapes == {"\"", "\\", "/", "b", "f", "n", "r", "t"}

\* The position of the quote that closes the string whose content starts at
\* j (0: none, or a bad escape or a line break inside the string).
RECURSIVE StringEnd(_, _)
StringEnd(s, j) ==
    CASE j > Len(s)     -> 0
      [] s[j] = "\""    -> j
      [] s[j] = "\n"    -> 0
      [] s[j] = "\\"    -> IF CharAt(s, j + 1) \in Escapes
                           THEN StringEnd(s, j + 2) ELSE 0
      [] OTHER          -> StringEnd(s, j + 1)

ParseString(s, i) ==
    LET e == StringEnd(s, i + 1)
    IN  IF CharAt(s, i) = "\"" /\ e # 0
        THEN [ok |-> TRUE, pos |-> e + 1, canon |-> SubSeq(s, i, e)]
        ELSE ParseFails

\* The end of the run of digits that starts at i (i - 1: no digit at i).
DigitsEnd(s, i) ==
    LET stop == {j \in i..Len(s) : ~IsDigit(s[j])}
    IN  IF stop = {} THEN Len(s) ELSE MinOf(stop) - 1

\* A number: -? (0 | [1-9] digits) (. digits)?   (no exponent)
ParseNumber(s, i) ==
    LET a == IF CharAt(s, i) = "-" THEN i + 1 ELSE i
        b == IF CharAt(s, a) = "0" THEN a ELSE DigitsEnd(s, a)
        c == IF CharAt(s, b + 1) = "." THEN DigitsEnd(s, b + 2) ELSE b
    IN  IF b < a \/ (CharAt(s, b + 1) = "." /\ c < b + 2) THEN ParseFails
        ELSE [ok |-> TRUE, pos |-> c + 1, canon |-> SubSeq(s, i, c)]

True == <<"t", "r", "u", "e">>
False == <<"f", "a", "l", "s", "e">>
Null == <<"n", "u", "l", "l">>

ParseLiteral(s, i) ==
    IF \E lit \in {True, False, Null} : StartsWithAt(s, i, lit)
    THEN LET lit == CHOOSE l \in {True, False, Null} : StartsWithAt(s, i, l)
         IN  [ok |-> TRUE, pos |-> i + Len(lit), canon |-> lit]
    ELSE ParseFails

RECURSIVE ParseValue(_, _), ParseMembers(_, _, _), ParseElements(_, _, _)

\* The members of an object from position j on, acc being the canonical
\* text so far.
ParseMembers(s, j, acc) ==
    LET key == ParseString(s, j)
        colon == SkipSpace(s, key.pos)
        value == ParseValue(s, SkipSpace(s, colon + 1))
        after == SkipSpace(s, value.pos)
        canon == acc \o key.canon \o <<":">> \o value.canon
    IN  IF ~key.ok \/ CharAt(s, colon) # ":" THEN ParseFails
        ELSE IF ~value.ok THEN ParseFails
        ELSE IF CharAt(s, after) = ","
        THEN ParseMembers(s, SkipSpace(s, after + 1), canon \o <<",">>)
        ELSE IF CharAt(s, after) = "}"
        THEN [ok |-> TRUE, pos |-> after + 1, canon |-> canon \o <<"}">>]
        ELSE ParseFails

\* The elements of an array from position j on.
ParseElements(s, j, acc) ==
    LET value == ParseValue(s, j)
        after == SkipSpace(s, value.pos)
        canon == acc \o value.canon
    IN  IF ~value.ok THEN ParseFails
        ELSE IF CharAt(s, after) = ","
        THEN ParseElements(s, SkipSpace(s, after + 1), canon \o <<",">>)
        ELSE IF CharAt(s, after) = "]"
        THEN [ok |-> TRUE, pos |-> after + 1, canon |-> canon \o <<"]">>]
        ELSE ParseFails

ParseValue(s, i) ==
    LET c == CharAt(s, i)
        j == SkipSpace(s, i + 1)
    IN  CASE c = "{" ->
                IF CharAt(s, j) = "}"
                THEN [ok |-> TRUE, pos |-> j + 1, canon |-> <<"{", "}">>]
                ELSE ParseMembers(s, j, <<"{">>)
          [] c = "[" ->
                IF CharAt(s, j) = "]"
                THEN [ok |-> TRUE, pos |-> j + 1, canon |-> <<"[", "]">>]
                ELSE ParseElements(s, j, <<"[">>)
          [] c = "\"" -> ParseString(s, i)
          [] c = "-" \/ IsDigit(c) -> ParseNumber(s, i)
          [] OTHER -> ParseLiteral(s, i)

\* JSON.parse(s): ok is FALSE where it throws a SyntaxError.
JSONparseText(s) ==
    LET value == ParseValue(s, SkipSpace(s, 1))
    IN  IF value.ok /\ SkipSpace(s, value.pos) > Len(s)
        THEN [ok |-> TRUE, canon |-> value.canon]
        ELSE [ok |-> FALSE, canon |-> <<>>]

\* The values that are falsy: null, false, 0, -0 and "".
IsFalsy(canon) ==
    canon \in {Null, False, <<"0">>, <<"-", "0">>, <<"\"", "\"">>}

\* The grave accent, written as a name; three of them make a fence.
Backtick == "GRAVE"
Fence == <<Backtick, Backtick, Backtick>>

\* The position after an opening fence at i, its optional json tag and the
\* white space that follows.
AfterOpening(s, i) ==
    SkipSpace(s, IF StartsWithAt(s, i + 3, <<"j", "s", "o", "n">>)
                 THEN i + 7 ELSE i + 3)

\* No step 1: fenced blocks are not looked for.
FenceCapture_None(s) == [found |-> FALSE, inner |-> <<>>]

\* cleanedText.match(...) of step 1: the leftmost opening fence that has a
\* closing fence after it (after its optional json tag and white space), and
\* the text from there to the first such fence, without the white space at
\* its ends.
FenceCapture(s) ==
    LET fences == {i \in DOMAIN s : StartsWithAt(s, i, Fence)}
        opens == {i \in fences : \E f \in fences : f >= AfterOpening(s, i)}
    IN  IF opens = {} THEN [found |-> FALSE, inner |-> <<>>]
        ELSE LET from == AfterOpening(s, MinOf(opens))
                 close == MinOf({f \in fences : f >= from})
             IN  [found |-> TRUE, inner |-> Trim(SubSeq(s, from, close - 1))]

\* The candidate of step 2: from the first brace to the last, or from the
\* first bracket to the last, whichever opens first.
JsonCandidate(s) ==
    LET firstBrace == IndexOf(s, <<"{">>)
        lastBrace == LastIndexOf(s, <<"}">>)
        firstBracket == IndexOf(s, <<"[">>)
        lastBracket == LastIndexOf(s, <<"]">>)
    IN  IF firstBrace # 0 /\ (firstBracket = 0 \/ firstBrace < firstBracket)
        THEN IF lastBrace # 0 /\ lastBrace > firstBrace
             THEN SubSeq(s, firstBrace, lastBrace) ELSE <<>>
        ELSE IF firstBracket # 0
        THEN IF lastBracket # 0 /\ lastBracket > firstBracket
             THEN SubSeq(s, firstBracket, lastBracket) ELSE <<>>
        ELSE <<>>

\* The two replace calls of step 2: the first puts back what it matched
\* (a backslash and an n), the second drops the backslash in front of an
\* apostrophe.
RECURSIVE Sanitize(_)
Sanitize(s) ==
    IF s = <<>> THEN <<>>
    ELSE IF StartsWithAt(s, 1, <<"\\", "'">>)
    THEN <<"'">> \o Sanitize(SubSeq(s, 3, Len(s)))
    ELSE <<Head(s)>> \o Sanitize(Tail(s))

Returns(canon) ==
    [raised |-> FALSE, isNull |-> canon = Null, value |-> canon]

ReturnsNull == [raised |-> FALSE, isNull |-> TRUE, value |-> Null]

\* No outer try: the SyntaxError of the last JSON.parse reaches the caller.
CatchBlock_Rethrow(text) == [raised |-> TRUE, isNull |-> FALSE, value |-> <<>>]

\* catch (e) { console.error(..., snippet); return null; }
CatchBlock(text) == ReturnsNull

\* extractJson(text); text is null (isNull) or a string.
extractJson(isNull, text) ==
    IF isNull \/ text = <<>> THEN ReturnsNull               \* if (!text)
    ELSE
    LET cleanedText == Trim(text)
        markdownMatch == FenceCapture(cleanedText)
        parsed == JSONparseText(Trim(markdownMatch.inner))
        jsonCandidate == JsonCandidate(cleanedText)
        sanitized == JSONparseText(Sanitize(jsonCandidate))
        original == JSONparseText(jsonCandidate)
        whole == JSONparseText(cleanedText)
    IN  IF /\ markdownMatch.found /\ markdownMatch.inner # <<>>
           /\ parsed.ok /\ ~IsFalsy(parsed.canon)
        THEN Returns(parsed.canon)
        ELSE IF jsonCandidate # <<>> /\ sanitized.ok THEN Returns(sanitized.canon)
        ELSE IF jsonCandidate # <<>> /\ original.ok THEN Returns(original.canon)
        ELSE IF whole.ok THEN Returns(whole.canon)
        ELSE CatchBlock(text)

\* The texts handed to extractJson.  First those that hold one JSON object
\* in a fenced block, with prose around it: the object as written and its
\* canonical text.
JsonObjects ==
    {[text |-> <<"{", "\"", "a", "\"", ":", "1", "}">>, canon |-> <<"{", "\"", "a", "\"", ":", "1", "}">>],
     [text |-> <<"{", " ", "\"", "a", "\"", ":", " ", "[", "1", ",", " ", "2", "]", " ", "}">>,
      canon |-> <<"{", "\"", "a", "\"", ":", "[", "1", ",", "2", "]", "}">>],
     [text |-> <<"{", "\n", " ", "\"", "k", "\"", ":", " ", "{", "\"", "b", "\"", ":", " ", "\"", "c", "\"", "}", "\n", "}">>,
      canon |-> <<"{", "\"", "k", "\"", ":", "{", "\"", "b", "\"", ":", "\"", "c", "\"", "}", "}">>],
     [text |-> <<"{", "}">>,
      canon |-> <<"{", "}">>]}

ProseBefore == {<<>>, <<"H", "e", "r", "e", ":", " ">>, <<"{", "x", "}", " ">>,
                <<"s", "e", "e", " ", "[", "1", "]", " ">>, <<"}", " ">>,
                <<"a", " ", Backtick, "b", Backtick, " ">>}
ProseAfter == {<<>>, <<" ", "d", "o", "n", "e">>, <<" ", "{", "y", "}">>, <<" ", "]">>,
               <<"\n", "[", "2", "]">>}
FenceTags == {<<>>, <<"j", "s", "o", "n">>}
FenceGaps == {<<>>, <<"\n">>}

FencedInputs ==
    {[kind |-> "fenced", isNull |-> FALSE, expect |-> o.canon,
      text |-> before \o Fence \o tag \o gap \o o.text \o gap \o Fence \o after] :
        o \in JsonObjects, before \in ProseBefore, after \in ProseAfter,
        tag \in FenceTags, gap \in FenceGaps}

\* Then null, the empty string, white space, prose, and texts with JSON,
\* well-formed or not, outside any fence.
PlainText(kind, text) ==
    [kind |-> kind, isNull |-> FALSE, expect |-> <<>>, text |-> text]

OtherInputs ==
    {[kind |-> "null", isNull |-> TRUE, expect |-> <<>>, text |-> <<>>],
     PlainText("empty", <<>>),
     PlainText("blank", <<" ">>),
     PlainText("blank", <<"\n", " ", "\n">>),
     PlainText("prose", <<"S", "u", "r", "e", " ", "h", "e", "r", "e", " ", "i", "t", " ", "i", "s">>),
     PlainText("prose", <<"n", "o", " ", "j", "s", "o", "n", ".", " ", "s", "o", "r", "r", "y">>),
     PlainText("prose", <<"o", "k">>),
     PlainText("prose", True),
     PlainText("prose", False),
     PlainText("prose", <<"4", "2">>),
     PlainText("prose", Null),
     PlainText("prose", <<"-", "3", ".", "5">>),
     PlainText("json", <<"{", "\"", "a", "\"", ":", "1", "}">>),
     PlainText("json", <<"S", "u", "r", "e", ":", " ", "{", "\"", "a", "\"", ":", "1", "}", " ", "o", "k">>),
     PlainText("json", <<"[", "1", ",", " ", "2", "]">>),
     PlainText("json", <<"{", "\"", "a", "\"", ":">>),
     PlainText("json", <<"{", "'", "a", "'", ":", "1", "}">>),
     PlainText("json", <<"{", "\"", "a", "\"", ":", "\"", "i", "t", "\\", "'", "s", "\"", "}">>),
     PlainText("json", <<"[", "1", "]", " ", "a", "n", "d", " ", "{", "\"", "a", "\"", ":", "2", "}">>),
     PlainText("json", <<"\"", "x", "\"">>),
     PlainText("json", <<"{", "x", "}", " ", Backtick, Backtick, Backtick, "{", "\"", "a", "\"", ":", "1">>),
     PlainText("json", <<Backtick, Backtick, Backtick, " ", Backtick, Backtick, Backtick>>),
     PlainText("json", Fence \o <<"j", "s", "o", "n", "\n", "0", "\n">> \o Fence),
     PlainText("json", Fence \o False \o Fence \o <<" ", "{", "\"", "a", "\"", ":", "1", "}">>),
     PlainText("json", Fence \o <<"[", "1", ",">> \o Fence \o <<" ", "[", "2", "]">>),
     PlainText("json", <<"{", "\"", "a", "\"", ":", "\"", "\\", "\\", "'", "\"", "}">>),
     PlainText("json", <<"[", "\"", "\\", "n", "\"", "]", " ", "o", "k">>),
     PlainText("json", <<"{", " ", "[", "1", ",", "2", "]">>),
     PlainText("json", <<"[", " ", "{", "\"", "a", "\"", ":", "1", "}">>),
     PlainText("json", <<"}", " ", "[", "1", "]", " ", "{">>),
     PlainText("json", <<"{", "\"", "a", "\"", ":", "1", "}", " ", "o", "r", " ", "{", "\"", "b", "\"", ":", "2", "}">>)}

InitEj ==
    \E input \in FencedInputs \cup OtherInputs :
        ej = [NoEj EXCEPT !.stage = "input", !.kind = input.kind,
                          !.isNull = input.isNull, !.text = input.text,
                          !.expect = input.expect]

\* Whether the call gets past step 1: the text is not falsy and no fenced
\* block gave a truthy value.
ReachesGreedyStep(isNull, text) ==
    /\ ~isNull /\ text # <<>>
    /\ LET markdownMatch == FenceCapture(Trim(text))
           parsed == JSONparseText(Trim(markdownMatch.inner))
       IN  ~(/\ markdownMatch.found /\ markdownMatch.inner # <<>>
             /\ parsed.ok /\ ~IsFalsy(parsed.canon))

\* One call; greedy and candidate record whether step 2 was reached and the
\* jsonCandidate it computed.
CallExtractJson ==
    \E r \in {extractJson(ej.isNull, ej.text)} :
    \E greedy \in {ReachesGreedyStep(ej.isNull, ej.text)} :
    /\ ej.stage = "input"
    /\ ej' = [ej EXCEPT !.stage = "done", !.raised = r.raised,
                        !.outNull = r.isNull, !.out = r.value,
                        !.greedy = greedy,
                        !.candidate = IF greedy THEN JsonCandidate(Trim(ej.text))
                                      ELSE <<>>]
    /\ UNCHANGED <<archiveVars, subtitleVars, srt, appVars>>

(***************************************************************************)
(*                                  App                                    *)
(***************************************************************************)
AppView == {"dashboard", "transcribe_file", "transcribe_youtube", "translate",
            "subtitles", "voice", "recap", "professional_recap", "content",
            "story", "thumbnail", "downloader", "archive", "video_gen"}

\* The views renderView renders with initialAsset={activeAsset}; their back
\* button also clears activeAsset.
AssetViews == {"transcribe_file", "transcribe_youtube", "translate", "voice",
               "professional_recap", "story", "video_gen"}

\* The toolId values the tools pass to ArchiveService.saveAsset.
SavedToolIds == {"translate", "transcribe_file", "professional_recap",
                 "transcribe_youtube", "story", "thumbnail", "video_gen",
                 "voice"}

\* activeAsset === null
NoAsset == [id |-> 0, toolId |-> "none"]

\* The entries the archive view lists: one per saving tool, two of the story
\* tool.
ArchivedEntries ==
    {[id |-> 1, toolId |-> t] : t \in SavedToolIds}
    \cup {[id |-> 2, toolId |-> "story"]}

InitApp ==
    /\ currentView = "dashboard"
    /\ activeAsset = NoAsset

\* What the back button of a view does to activeAsset: the views that take
\* initialAsset clear it, the others leave it.
AfterBack(view, asset) == IF view \in AssetViews THEN NoAsset ELSE asset

\* handleResume, called by the Resume Production button of an archive entry
\* with the entry's toolId.
HandleResume(entry) ==
    /\ currentView = "archive"
    /\ activeAsset' = entry
    /\ currentView' = entry.toolId
    /\ UNCHANGED <<archiveVars, subtitleVars, utilVars>>

\* onBack of the view shown.
Back ==
    /\ currentView # "dashboard"
    /\ currentView' = "dashboard"
    /\ activeAsset' = AfterBack(currentView, activeAsset)
    /\ UNCHANGED <<archiveVars, subtitleVars, utilVars>>

\* The logo and the Tools button of the header; the Archive button.
HeaderNavigate(view) ==
    /\ currentView # view
    /\ currentView' = view
    /\ UNCHANGED activeAsset
    /\ UNCHANGED <<archiveVars, subtitleVars, utilVars>>

\* A card of the dashboard: onSelectTool={setCurrentView}.
SelectTool(tool) ==
    /\ currentView = "dashboard"
    /\ currentView' = tool
    /\ UNCHANGED activeAsset
    /\ UNCHANGED <<archiveVars, subtitleVars, utilVars>>

(***************************************************************************)
(*                            Specifications                               *)
(***************************************************************************)
InitUtil == srt = NoSrt /\ ej = NoEj

Init == InitArchiveAt(0) /\ InitSubtitle /\ InitUtil /\ InitApp

Next ==
    \/ HandleTranslateClick
    \/ \E r \in RunIds : \E k \in 1..MaxChunks : \E resp \in Responses :
          ChunkReturn(r, k, resp)
    \/ DiscardAsset
    \/ HandleFileUpload
    \/ \E n \in {0} \cup SegLens : ReaderOnload(n)
    \/ \E url \in {"", "url"} : SetYoutubeUrl(url)
    \/ SetAutoTranslate
    \/ HandleYoutubeExtract
    \/ \E n \in {0} \cup SegLens : YoutubeReturn(n)
    \/ \E n \in SegLens : YoutubeReturnTranslate(n)
    \/ YoutubeFails

\* SubtitleTool.
Spec == Init /\ [][Next]_vars

\* The call a run awaits returns or throws: the continuation of the run.
Resume(r) ==
    \E k \in 1..MaxChunks : \E resp \in Responses : ChunkReturn(r, k, resp)

\* Every translateSegments call in flight eventually returns or throws, and
\* the event loop then runs the continuation of the run that awaits it.
CallsReturn == \A r \in RunIds : WF_vars(Resume(r))

\* SubtitleTool, with every chunk call eventually answered.
SpecCallsReturn == Init /\ [][Next]_vars /\ CallsReturn

InitArchive == (\E n \in PrefillCounts : InitArchiveAt(n)) /\ InitSubtitle
                   /\ InitUtil /\ InitApp

NextArchive ==
    \/ \E type \in SaveTypes : \E title \in Titles : \E content \in Contents :
          SaveAsset(type, title, content)
    \/ \E id \in DeleteIdsOf(Stored) : DeleteAsset(id)
    \/ ClearAll
    \/ ListAll

\* ArchiveService over an intact store.
SpecArchive == InitArchive /\ [][NextArchive]_vars

NextArchiveFault ==
    \/ NextArchive
    \/ \E item \in CorruptItems : CorruptArchive(item)

\* The pages save under one title: titles play no part in what they share.
PageTitles == {"Demo"}

NextArchivePages ==
    \E p \in PageIds :
        \/ \E type \in SaveTypes : \E title \in PageTitles :
              \E content \in Contents : PageSaveRead(p, type, title, content)
        \/ PageSaveCounters(p)
        \/ PageSaveBump(p)
        \/ PageSaveWrite(p)
        \/ \E id \in DeleteIdsOf(Stored) : PageDeleteRead(p, id)
        \/ PageDeleteWrite(p)
        \/ PageClearArchive(p)
        \/ PageClearCounters(p)

\* ArchiveService called from two pages that share the store.
SpecArchivePages == Init /\ [][NextArchivePages]_vars

\* generateSRT and parseSRT.
InitSrtCalls == InitArchiveAt(0) /\ InitSubtitle /\ InitSrt /\ ej = NoEj
                    /\ InitApp

NextSrt == CallGenerateSRT \/ CallParseSRT

SpecSrt == InitSrtCalls /\ [][NextSrt]_vars

\* extractJson.
InitJsonCalls == InitArchiveAt(0) /\ InitSubtitle /\ srt = NoSrt /\ InitEj
                     /\ InitApp

NextJson == CallExtractJson

SpecJson == InitJsonCalls /\ [][NextJson]_vars

NextCountersFault ==
    \/ NextArchive
    \/ \E item \in CorruptCounterItems : CorruptCounters(item)

\* ArchiveService over a store whose counters item may become unreadable.
SpecCountersFault == InitArchive /\ [][NextCountersFault]_vars

NextApp ==
    \/ \E entry \in ArchivedEntries : HandleResume(entry)
    \/ Back
    \/ \E view \in {"dashboard", "archive"} : HeaderNavigate(view)
    \/ \E tool \in AppView \ {"dashboard", "archive"} : SelectTool(tool)

\* App: navigation between the views.
SpecApp == Init /\ [][NextApp]_vars

\* ArchiveService over a store that other code may damage.
SpecArchiveFault == Init /\ [][NextArchiveFault]_vars

(***************************************************************************)
(*                         Properties: runTranslation                      *)
(***************************************************************************)
\* The step in which run r returns with a failure.
FailStep(r) == runs[r].pc = "awaiting" /\ runs'[r].pc = "failed"

\* C1: a run in which every chunk call succeeds publishes a sequence that has,
\* at every index, the startTime and endTime of the input segment at that index.
C1_TimingPreserved ==
    \A r \in RunIds :
        runs[r].pc = "succeeded" =>
            \A i \in DOMAIN runs[r].output \cap DOMAIN runs[r].source :
                /\ runs[r].output[i].startTime = runs[r].source[i].startTime
                /\ runs[r].output[i].endTime = runs[r].source[i].endTime

\* C2: when a chunk call fails (translateSegments throws, or hands back no
\* array), the run ends in failure: an error is reported, translatedSegments is
\* not assigned, and what earlier chunks returned is not published.
C2_FailurePublishesNothing ==
    [][\A r \in RunIds :
          /\ (runs[r].pc = "awaiting" /\ runs'[r].pc # "awaiting")
                => (runs'[r].last \in {"error", "unparsable"}
                        <=> runs'[r].pc = "failed")
          /\ FailStep(r) =>
                /\ translatedSegments' = translatedSegments
                /\ ~runs'[r].published
                /\ error' # NoError]_vars

\* A run failed after an earlier chunk had been translated, and nothing of
\* it is visible.
C2_Witness ==
    \E r \in RunIds :
        /\ runs[r].pc = "failed"
        /\ runs[r].done >= 1
        /\ Len(runs[r].results) >= chunkSize
        /\ translatedSegments = <<>>

\* C3: a run that ends in success publishes a sequence as long as its input
\* (a chunk result of another length than its chunk makes the run fail).
C3_SuccessKeepsLength ==
    \A r \in RunIds :
        runs[r].pc = "succeeded" => Len(runs[r].output) = Len(runs[r].source)

\* C4: in the step in which the call for chunk k fails no further call is
\* started, no call for a chunk after k was started before, the run never
\* acts again, and error is set to "Translation failed: " + message.
C4_FailureAbortsAndReports ==
    [][\A r \in RunIds :
          /\ FailStep(r) =>
                /\ runs'[r].calls = runs[r].calls
                /\ \A c \in runs'[r].calls : c.chunk <= runs'[r].failedAt
                /\ Len(error') = 2
                /\ error'[1] = "Translation failed: "
          /\ runs[r].pc \in {"failed", "ended"} => runs'[r].pc = "ended"]_vars

\* A run failed at a chunk that is not its last one.
C4_Witness ==
    \E r \in RunIds :
        /\ runs[r].pc = "failed"
        /\ runs[r].failedAt < NumChunks(runs[r].source)
        /\ error = TranslationError("QUOTA_EXHAUSTED")

\* C5: within a run at most one chunk call is in flight, and the call for
\* chunk c is started exactly when c - 1 calls have completed.
C5_OneCallAtATimeInOrder ==
    \A r \in RunIds :
        /\ Cardinality(runs[r].inflight) <= 1
        /\ \A c \in runs[r].calls : c.doneBefore = c.chunk - 1
        /\ runs[r].pc = "awaiting" => runs[r].inflight = {runs[r].done + 1}
        /\ {c.chunk : c \in runs[r].calls} = 1..Cardinality(runs[r].calls)

\* The second call of a run is in flight, the first one having completed.
C5_Witness ==
    \E r \in RunIds :
        /\ runs[r].pc = "awaiting"
        /\ runs[r].done = 1
        /\ runs[r].inflight = {2}

(***************************************************************************)
(*                        Properties: ArchiveService                       *)
(***************************************************************************)
SavedNow == ret.op = "save" /\ ~ret.raised

\* A step that is a completed saveAsset.
SaveStep == ret'.op = "save" /\ ~ret'.raised /\ ops' = ops + 1

\* C6, as claimed: every saveAsset returns a version exactly 1 greater than
\* the version the previous saveAsset with the same (title, type) returned (1
\* for the first), whatever deleteAsset, clearAll or eviction did in between.
C6_VersionPrevPlusOneAlways ==
    SavedNow => ret.entry.version = ret.prevVersion + 1

\* C6, amended: a saveAsset returns a version exactly 1 greater than the
\* previous saveAsset with the same (title, type) returned (1 for the first),
\* provided no entry with that (title, type) left the store since then.
C6_VersionPrevPlusOneUnlessRemoved ==
    (SavedNow /\ ~ret.removed) => ret.entry.version = ret.prevVersion + 1

\* A second save of a key none of whose entries was removed.
C6_Witness ==
    SavedNow /\ ~ret.removed /\ ret.prevVersion >= 1 /\ ret.lenBefore >= 2

\* The counters read from the store never decrease.
CountersNeverDecrease ==
    \A p \in Prefixes : GetCounters(stCounters')[p] >= GetCounters(stCounters)[p]

C8_BoundedOldestEvicted ==
    [][/\ Len(Stored') <= ArchiveLimit
       /\ SaveStep =>
            LET kept == Min(Len(Stored), ArchiveLimit - 1)  \* older entries that stay
                idsAfter == {Stored'[j].id : j \in DOMAIN Stored'}
            IN  /\ ret'.entry.id \in idsAfter
                /\ Len(Stored') = kept + 1
                /\ {Stored[i].id : i \in 1..kept} \subseteq idsAfter
                /\ \A i \in (kept + 1)..Len(Stored) :
                      Stored[i].id \notin idsAfter]_vars

\* A save into a full store: an entry was evicted.
C8_Witness ==
    SavedNow /\ ret.lenBefore = ArchiveLimit /\ Len(Stored) = ArchiveLimit

\* C9: the stored list, which listAll returns as it is, is in
\* most-recent-insertion-first order (ids are handed out in insertion order);
\* a save puts the new entry at the head and leaves the entries that stay
\* unchanged and in the same order.
C9_MostRecentFirst ==
    [][/\ \A i \in 1..(Len(Stored') - 1) : Stored'[i].id > Stored'[i + 1].id
       /\ ret'.op = "list" =>
              ret'.listed.isArray /\ ret'.listed.items = Stored
       /\ SaveStep =>
              /\ Stored'[1] = ret'.entry
              /\ \A i \in 2..Len(Stored') : Stored'[i] = Stored[i - 1]]_vars

\* listAll returned two entries, the later save first.
C9_Witness ==
    /\ ret.op = "list"
    /\ Len(ret.listed.items) = 2
    /\ ret.listed.items[1].id = 2
    /\ ret.listed.items[2].id = 1

\* C10: whenever the stored item is unreadable as an entry list (not JSON, or
\* JSON that is not an array), listAll returns the empty list.
C10_ListAllReturnsList ==
    (ret.op = "list" /\ (stArchive.kind = "garbage"
                          \/ (stArchive.kind = "json" /\ ~stArchive.isArray)))
        => (~ret.raised /\ ret.listed = EmptyList)

(***************************************************************************)
(*                    Properties: second group of claims                   *)
(***************************************************************************)
\* C12: once the asset of a run has been discarded while the run awaits a
\* chunk call (the only signal a caller can give), the run starts no further
\* chunk call: the call in flight completes or fails and the run stops.
C12_NoCallAfterDiscard ==
    [][\A r \in RunIds :
          (runs[r].pc = "awaiting" /\ runs[r].discarded)
              => runs'[r].calls \subseteq runs[r].calls]_vars

\* The sizes of the chunks of a segment list, in order.
ChunkSizes(source) ==
    [k \in 1..NumChunks(source) |-> Len(Chunks(source)[k])]

\* The chunks for which a run has started a call.
CalledChunks(r) == {c.chunk : c \in runs[r].calls}

\* What C16 says of a run over 25 segments, for given progress values.
Run25Reports(values) ==
    \A r \in RunIds :
        Len(runs[r].source) = 25 =>
            /\ ChunkSizes(runs[r].source) = <<12, 12, 1>>
            /\ runs[r].emitted = SubSeq(values, 1, runs[r].done)
            /\ runs[r].pc = "succeeded" =>
                  /\ runs[r].done = 3
                  /\ CalledChunks(r) = 1..3
                  /\ Cardinality(runs[r].calls) = 3

\* C16, as claimed: translating 25 segments makes exactly 3 chunk calls, of
\* sizes 12, 12 and 1 in that order, and the progress values reported after
\* them are 34, 67 and 100.
C16_Progress34_67_100 == Run25Reports(<<34, 67, 100>>)

\* C16, amended: translating 25 segments makes exactly 3 chunk calls, of
\* sizes 12, 12 and 1 in that order, and the progress values reported after
\* them are 33, 67 and 100 (Math.round of 33.33, 66.67 and 100).
C16_Progress33_67_100 == Run25Reports(<<33, 67, 100>>)

\* A run over 25 segments has succeeded and reported 33, 67, 100.
C16_Witness ==
    \E r \in RunIds :
        /\ runs[r].pc = "succeeded"
        /\ Len(runs[r].source) = 25
        /\ runs[r].emitted = <<33, 67, 100>>

\* The concatenation of a sequence of sequences.
RECURSIVE Concat(_)
Concat(seqs) ==
    IF seqs = <<>> THEN <<>> ELSE Head(seqs) \o Concat(Tail(seqs))

\* C20: the chunks of an input of n segments are ceil(n / 12) contiguous
\* pieces, all of exactly 12 segments except the last, which has between 1
\* and 12, and their concatenation in order is the input; a run in which
\* every call succeeds has made exactly one call per chunk.
C20_ChunksPartitionInput ==
    \A r \in RunIds :
        LET source == runs[r].source
            n == Len(source)
            chunks == Chunks(source)
            m == Len(chunks)
        IN  /\ chunkSize * (m - 1) < n /\ n <= chunkSize * m
            /\ \A k \in 1..(m - 1) : Len(chunks[k]) = chunkSize
            /\ m > 0 => Len(chunks[m]) \in 1..chunkSize
            /\ Concat(chunks) = source
            /\ runs[r].pc = "succeeded" =>
                  /\ CalledChunks(r) = 1..m
                  /\ Cardinality(runs[r].calls) = m
                  /\ runs[r].done = m

\* A run over 13 segments has succeeded after two calls, the second for a
\* chunk of one segment.
C20_Witness ==
    \E r \in RunIds :
        /\ runs[r].pc = "succeeded"
        /\ Len(runs[r].source) = 13
        /\ Cardinality(runs[r].calls) = 2
        /\ Len(Chunks(runs[r].source)[2]) = 1

\* A step that is a completed deleteAsset.
DeleteStep == ret'.op = "delete" /\ ~ret'.raised /\ ops' = ops + 1

\* C17: deleteAsset(id) removes exactly the entries whose id is the argument;
\* every other entry stays, unchanged and in the same relative order, and
\* the counters are untouched; with an id that is not stored the list stays
\* as it is.
C17_DeleteRemovesOnlyThatId ==
    [][DeleteStep =>
          \E hit \in {{i \in DOMAIN Stored : Stored[i].id = ret'.id}} :
              /\ Len(Stored') = Len(Stored) - Cardinality(hit)
              /\ \A i \in DOMAIN Stored \ hit :
                    Stored'[i - Cardinality({j \in hit : j < i})] = Stored[i]
              /\ hit = {} => Stored' = Stored
              /\ stCounters' = stCounters]_vars

\* The second of three entries was deleted: the newest and the oldest stay.
C17_Witness ==
    /\ ret.op = "delete" /\ ~ret.raised
    /\ ret.id = 2
    /\ ret.lenBefore = 3
    /\ Len(Stored) = 2 /\ Stored[1].id = 3 /\ Stored[2].id = 1
    /\ GetCounters(stCounters)["ST"] + GetCounters(stCounters)["VR"] = 3

\* C19: the version of the entry a saveAsset stores is 1 plus the number of
\* entries that were stored when it was called with exactly its title and
\* its type; entries that differ in either are not counted.
C19_VersionIsCountPlusOne ==
    [][SaveStep =>
          /\ Stored'[1].version = ret'.entry.version
          /\ ret'.entry.version =
                1 + Cardinality({i \in DOMAIN Stored :
                                    /\ Stored[i].title = ret'.entry.title
                                    /\ Stored[i].type = ret'.entry.type})]_vars

\* A save got version 2 while the store also held an entry of the same
\* title and another type, and one of the same type and another title.
C19_Witness ==
    /\ SavedNow
    /\ ret.entry.version = 2
    /\ ret.lenBefore = 3
    /\ \E i \in DOMAIN Stored :
          Stored[i].title = ret.entry.title /\ Stored[i].type # ret.entry.type
    /\ \E i \in DOMAIN Stored :
          Stored[i].title # ret.entry.title /\ Stored[i].type = ret.entry.type

\* The entries returned by the saves completed so far, in any page.
SavedByPages == UNION {pages[p].saved : p \in PageIds}

\* C11: methods called from pages that share the two storage items are
\* serialized, so that no saved entry is lost and no two saves obtain the
\* same fileId: as long as no page has called deleteAsset or clearAll, no two
\* completed saves share a fileId and, once no method is running, every
\* entry a save returned is in the store.
C11_NoLostEntryNoSharedFileId ==
    (\A p \in PageIds : ~pages[p].removes) =>
        /\ \A e1, e2 \in SavedByPages : e1.id # e2.id => e1.fileId # e2.fileId
        /\ (\A p \in PageIds : pages[p].pc = "idle") =>
              \A e \in SavedByPages :
                  \E i \in DOMAIN Stored : Stored[i].id = e.id

\* C13: parseSRT(generateSRT(S, includeSpeakers)) has the length of S and,
\* at every index, the startTime, endTime, text and speaker of S (a segment
\* without a speaker comes back without one).
C13_RoundTrip ==
    srt.stage = "decoded" =>
        /\ Len(srt.out) = Len(srt.segs)
        /\ \A i \in DOMAIN srt.segs \cap DOMAIN srt.out :
              /\ srt.out[i].startTime = srt.segs[i].startTime
              /\ srt.out[i].endTime = srt.segs[i].endTime
              /\ srt.out[i].text = srt.segs[i].text
              /\ srt.out[i].hasSpeaker = srt.segs[i].hasSpeaker
              /\ srt.out[i].speaker = srt.segs[i].speaker

\* C18: no segment that parseSRT returns has an empty text.
C18_NoEmptyText ==
    srt.stage \in {"parsed", "decoded"} =>
        \A i \in DOMAIN srt.out : srt.out[i].text # <<>>

\* Text with no JSON-like punctuation: no brace, bracket, quote, colon,
\* comma or grave accent, and not only white space.
JsonPunctuation == {"{", "}", "[", "]", "\"", ":", ",", Backtick}
IsProse(text) ==
    /\ Trim(text) # <<>>
    /\ \A i \in DOMAIN text : text[i] \notin JsonPunctuation

\* Text that is, as a whole, the JSON literal true or false or a number.
IsJsonLiteral(text) ==
    \/ text \in {True, False}
    \/ ParseNumber(text, 1).ok /\ ParseNumber(text, 1).pos = Len(text) + 1

\* C14, as claimed: extractJson never raises, and it returns null for null,
\* for the empty string, for white space only and for every text with no
\* JSON-like punctuation.
C14_NullForAllProse ==
    ej.stage = "done" =>
        /\ ~ej.raised
        /\ (ej.isNull \/ Trim(ej.text) = <<>> \/ IsProse(ej.text)) => ej.outNull

\* C14, amended: extractJson never raises, and it returns null for null, for
\* the empty string, for white space only and for every text with no
\* JSON-like punctuation that is not, as a whole, the JSON literal true or
\* false or a number (those are parsed by step 3 and returned).
C14_NullForProseButLiterals ==
    ej.stage = "done" =>
        /\ ~ej.raised
        /\ (\/ ej.isNull
            \/ Trim(ej.text) = <<>>
            \/ IsProse(ej.text) /\ ~IsJsonLiteral(Trim(ej.text))) => ej.outNull

\* extractJson was called on a sentence and returned null.
C14_Witness ==
    /\ ej.stage = "done"
    /\ IsProse(ej.text) /\ Includes(ej.text, <<" ">>)
    /\ ~IsJsonLiteral(Trim(ej.text))
    /\ ~ej.raised /\ ej.outNull

IsRounded(v, k, total) ==
    /\ 2 * total * v - total <= 200 * k
    /\ 200 * k < 2 * total * v + total

ClaimedAttempts(text) ==
    LET cleanedText == Trim(text)
        candidate == JsonCandidate(cleanedText)
    IN  <<JSONparseText(FenceCapture(cleanedText).inner),
          JSONparseText(candidate),
          JSONparseText(Sanitize(candidate)),
          JSONparseText(candidate),
          JSONparseText(cleanedText)>>

\* The value of the first of a sequence of parses that succeeded, or null.
FirstSuccess(attempts) ==
    LET ok == {i \in DOMAIN attempts : attempts[i].ok}
    IN  IF ok = {} THEN Null ELSE attempts[MinOf(ok)].canon

\* C22: extractJson returns the value of the first parse that succeeds among
\* (1) the content of the first fenced block, (2) the greedy candidate as it
\* is, (3) the sanitized candidate, (4) the candidate again, (5) the whole
\* trimmed text; it returns null only if all of them fail.
C22_FirstSuccessWins ==
    (ej.stage = "done" /\ ~ej.isNull /\ ej.text # <<>>) =>
        /\ ~ej.raised
        /\ ej.out = FirstSuccess(ClaimedAttempts(ej.text))
        /\ ej.outNull <=> ej.out = Null

\* The candidate C23 describes: of the first brace and the first bracket
\* that have their closing character somewhere after them, the one that comes
\* first decides, and the candidate runs from it to the last occurrence of its
\* closing character; none if neither has one.
ClaimedCandidate(s) ==
    LET firstBrace == IndexOf(s, <<"{">>)
        lastBrace == LastIndexOf(s, <<"}">>)
        firstBracket == IndexOf(s, <<"[">>)
        lastBracket == LastIndexOf(s, <<"]">>)
        object == firstBrace # 0 /\ lastBrace > firstBrace
        array == firstBracket # 0 /\ lastBracket > firstBracket
    IN  IF object /\ (~array \/ firstBrace < firstBracket)
        THEN SubSeq(s, firstBrace, lastBrace)
        ELSE IF array THEN SubSeq(s, firstBracket, lastBracket)
        ELSE <<>>

\* C23: in the greedy step the candidate is decided by whichever of the first
\* brace and the first bracket comes first and has its closing character after
\* it (a first brace with no closing brace after it leaves the choice to the
\* bracket), and it runs from that opener to the last occurrence of its closer.
C23_OpenerWithCloserDecides ==
    (ej.stage = "done" /\ ej.greedy) =>
        ej.candidate = ClaimedCandidate(Trim(ej.text))

(***************************************************************************)
(*                   Properties: parseSRT and generateSRT                  *)
(***************************************************************************)
\* A time code with a period before its milliseconds: HH:MM:SS.mmm.
IsCanonicalStamp(t) ==
    /\ Len(t) = Len(StampPattern)
    /\ MatchesAt(t, 1, StampPattern)
    /\ t[9] = "."

\* The example of C24: block 1, 00:00:01,000 to 00:00:03,500, Alice.
AliceBlock ==
    <<"1", "\n">> \o TimeLine \o <<"\n">>
    \o <<"[", "A", "l", "i", "c", "e", "]", ":", " ">>
    \o <<"H", "e", "l", "l", "o", " ", "t", "h", "e", "r", "e">>

\* C24: every segment parseSRT returns has a period before the milliseconds
\* of its startTime and endTime, whichever separator (comma, period, space)
\* the time line used; the block of the example decodes to 00:00:01.000,
\* 00:00:03.500, speaker Alice, text Hello there.
C24_SeparatorNormalized ==
    srt.stage \in {"parsed", "decoded"} =>
        /\ \A i \in DOMAIN srt.out :
              /\ IsCanonicalStamp(srt.out[i].startTime)
              /\ IsCanonicalStamp(srt.out[i].endTime)
        /\ srt.text = AliceBlock =>
              srt.out = <<SpokenSegment(Stamp1, Stamp2,
                                        <<"A", "l", "i", "c", "e">>,
                                        <<"H", "e", "l", "l", "o", " ", "t", "h", "e", "r", "e">>)>>

\* C25: generateSRT emits one block per segment, numbered 1, 2, 3, ... by
\* position; consecutive blocks are separated by exactly one blank line (the
\* lines of the output are, per segment, its number, its time line, its text
\* line and one empty line), and the text line starts with [Speaker]: only
\* when includeSpeakers is true and the segment has a speaker.
C25_NumberedByPosition ==
    srt.stage = "encoded" =>
        LET lines == Split(srt.text, "\n")
            n == Len(srt.segs)
        IN  /\ n = 0 => srt.text = <<>>
            /\ n > 0 => Len(lines) = 4 * n
            /\ \A i \in DOMAIN srt.segs :
                  LET seg == srt.segs[i]
                      text == lines[4 * i - 1]
                      labelled == srt.include /\ seg.hasSpeaker
                  IN  /\ lines[4 * i - 3] = Decimal(i)
                      /\ lines[4 * i - 2] =
                            ReplaceFirst(seg.startTime, ".", ",")
                            \o <<" ", "-", "-", ">", " ">>
                            \o ReplaceFirst(seg.endTime, ".", ",")
                      /\ lines[4 * i] = <<>>
                      /\ labelled =>
                            text = <<"[">> \o seg.speaker \o <<"]", ":", " ">>
                                   \o seg.text
                      /\ ~labelled => text = seg.text

\* Two segments were encoded with speakers included: the first, which starts
\* later than the second, has a speaker, and the second has none.
C25_Witness ==
    /\ srt.stage = "encoded"
    /\ srt.include
    /\ Len(srt.segs) = 2
    /\ srt.segs[1].startTime = Stamp3 /\ srt.segs[2].startTime = Stamp1
    /\ srt.segs[1].hasSpeaker /\ ~srt.segs[2].hasSpeaker
    /\ StartsWithAt(srt.text, 1, <<"1", "\n">> \o ReplaceFirst(Stamp3, ".", ","))

(***************************************************************************)
(*            Properties: translation runs and the other handlers          *)
(***************************************************************************)
\* The step in which run r publishes its result.
PublishStep(r) ==
    /\ runs[r].pc = "awaiting" /\ runs'[r].pc = "succeeded"
    /\ translatedSegments' # <<>>

\* C26: translatedSegments, when not empty, is the translation of the current
\* segments: a run publishes only the translation of the list that segments
\* holds at that moment, and whatever replaces or discards segments leaves
\* translatedSegments empty.
C26_TranslationOfCurrentSegments ==
    [][/\ \A r \in RunIds : PublishStep(r) => runs[r].source = segments'
       /\ segments' # segments => translatedSegments' = <<>>]_vars

\* The runs that have started and not yet returned.
ActiveRuns == {r \in RunIds : runs[r].pc = "awaiting"}

\* C27: at most one translation run is in progress at any time, and
\* isTranslating is true exactly while a run is in progress.
C27_OneRunAtATime ==
    /\ Cardinality(ActiveRuns) <= 1
    /\ isTranslating <=> ActiveRuns # {}

\* The step in which run r returns, its chunks all translated or one failed.
Terminates(r) ==
    runs[r].pc = "awaiting" /\ runs'[r].pc \in {"succeeded", "failed"}

\* C28: if every chunk call eventually returns or throws, every started run
\* eventually terminates, and the step in which it does leaves isTranslating
\* false and translationProgress 0.
C28_RunsTerminateAndReset ==
    /\ \A r \in RunIds :
          (runs[r].pc = "awaiting") ~> (runs[r].pc \in {"succeeded", "failed"})
    /\ [][\A r \in RunIds :
             Terminates(r) => ~isTranslating' /\ translationProgress' = 0]_vars

\* A run has returned after its third chunk call failed, two chunks having
\* been translated and 67 reported; the flags are reset.
C28_Witness ==
    \E r \in RunIds :
        /\ runs[r].pc = "failed"
        /\ runs[r].emitted = <<33, 67>>
        /\ ~isTranslating
        /\ translationProgress = 0

(***************************************************************************)
(*                    Properties: fileIds and counters                     *)
(***************************************************************************)
\* The largest sequence number a fileId can have in the stores explored.
MaxSeq == ArchiveLimit + MaxOps

\* C29: after any sequence of saveAsset, deleteAsset and clearAll the
\* fileIds of the stored entries are pairwise distinct, and no stored entry
\* has a sequence number above the persisted counter of its prefix; also
\* after the counters item could not be read and getCounters fell back to
\* zeros.
C29_DistinctFileIdsBelowCounter ==
    \E fileIds \in {{Stored[i].fileId : i \in DOMAIN Stored}} :
    \E counters \in {GetCounters(stCounters)} :
        /\ Cardinality(fileIds) = Len(Stored)
        /\ stCounters.kind = "json" =>
              \A type \in SaveTypes :
                 \A n \in (counters[TYPE_PREFIX(type)] + 1)..MaxSeq :
                    FormatFileId(TYPE_PREFIX(type), n) \notin fileIds

(***************************************************************************)
(*                             Properties: App                             *)
(***************************************************************************)
\* C30: a tool view is rendered with a non-null initialAsset only if the
\* asset's toolId is the view shown: activeAsset is null or was resumed for
\* the tool on screen.
C30_AssetBelongsToView ==
    (currentView \in AssetViews /\ activeAsset # NoAsset) =>
        activeAsset.toolId = currentView

====
